---- MODULE Spec2Model ----
(***************************************************************************)
(* Model of the scrcpy WebRTC signaling server                             *)
(* (app/src/webrtc_server.c, app/src/webrtc_server.h).                     *)
(*                                                                         *)
(* Threads: "main" drives the lifecycle (init, start, stop, join,          *)
(* destroy), "acceptor" runs run_webrtc_server, and the threads of         *)
(* ApiThreads call the public registry functions                           *)
(* sc_webrtc_server_add_client / sc_webrtc_server_remove_client.           *)
(***************************************************************************)
EXTENDS Integers, Sequences, FiniteSets, TLC

\* webrtc_server.h:17
SC_WEBRTC_MAX_CLIENTS == 10

\* util/net.h: the value of an invalid socket
SC_SOCKET_NONE == 0

\* The socket net_socket() returns in sc_webrtc_server_init: the first one
\* the process creates.
ListenSock == 1

\* What the environment may do under Spec: connections opened to the
\* listening socket, connections among them that do not get as far as a sent
\* 101 response, calls of add_client / remove_client from API threads, and
\* frames pushed to the frame sink.
MaxConns == 2
MaxOther == 1
MaxApiAdds == 1
MaxApiRemoves == 2
MaxPushes == 1

\* The same under SpecFill, where the registry is filled to capacity.
FillConns == 11
FillOther == 1
FillApiRemoves == 1

\* The same under SpecRegistry, where only the registry functions run, called
\* by several threads.
RegAdds == 11
RegRemoves == 2

\* The same under SpecNoReuse, where one thread fills the table and removes
\* every client.
ReuseAdds == 11
ReuseRemoves == 10

Main == "main"
Acceptor == "acceptor"
ApiThreads == {"api1"}
\* The threads that call the registry functions under SpecRegistry.
RegistryThreads == {"api1", "api2"}
Threads == {Main, Acceptor} \cup ApiThreads \cup RegistryThreads
NoThread == "none"

\* The Sec-WebSocket-Key values clients send.
Keys == {"keyA", "keyB"}

\* Arguments the API threads pass to remove_client: negative, the first
\* slots, the last slot and one beyond the table.
RemoveIds == {-1, 0, 1, SC_WEBRTC_MAX_CLIENTS - 1, SC_WEBRTC_MAX_CLIENTS}

Slots == 0 .. (SC_WEBRTC_MAX_CLIENTS - 1)

VARIABLES
    server_socket,   \* server->server_socket
    stopped,         \* server->stopped
    mutexState,      \* server->mutex: "uninit" | "alive" | "destroyed"
    mutexHolder,     \* the thread holding server->mutex and how often
    mutexKind,       \* what a second lock by the holder does (see MutexLock)
    clients,         \* server->clients[]
    client_count,    \* server->client_count
    open,            \* the sockets that are open (not yet net_close'd)
    nextSock,        \* the next fresh socket id
    pc,              \* each thread's position
    arg,             \* the argument of the registry call each thread is in
    res,             \* the result of the last add_client of each thread
    stop_i,          \* the loop index i of sc_webrtc_server_stop
    cur,             \* the connection the accept loop is handling
    connectedCnt,    \* on_client_connected invocations, per client id
    disconnectedCnt, \* on_client_disconnected invocations, per client id
    sent101,         \* the handshakes sent: [key, token]
    initFail,        \* the step sc_webrtc_server_init failed at
    aliveAtStop,     \* the clients that were alive when stop was called
    budget,          \* what the environment may still do (see Budget)
    nAddOk,          \* successful add_client calls so far
    acceptedAfterStop, \* connections net_accept returned with stopped set
    codec            \* the frame codec's input and output (see Build)

vars == <<server_socket, stopped, mutexState, mutexHolder, mutexKind,
          clients, client_count, open, nextSock, pc, arg, res, stop_i, cur,
          connectedCnt, disconnectedCnt, sent101, initFail, aliveAtStop,
          budget, nAddOk, acceptedAfterStop, codec>>

serverVars == <<server_socket, stopped, mutexState, mutexHolder, mutexKind,
                clients, client_count, open, nextSock, pc, arg, res, stop_i, cur,
                connectedCnt, disconnectedCnt, sent101, initFail, aliveAtStop,
                budget, nAddOk, acceptedAfterStop>>

\* webrtc_server.h:20-27 (struct sc_webrtc_client); a slot never written.
EmptyClient == [socket |-> SC_SOCKET_NONE, connected |-> FALSE,
                peer_connection |-> FALSE]

NoHolder == [owner |-> NoThread, count |-> 0]

NoConn == [sock |-> SC_SOCKET_NONE, path |-> "none", key |-> "none"]

\* The remaining allowance of the environment.
Budget(c, o, a, r, p) ==
    [conns |-> c, other |-> o, adds |-> a, removes |-> r, pushes |-> p]

\* The server before sc_webrtc_server_init.
InitServer ==
    /\ server_socket = SC_SOCKET_NONE
    /\ stopped = FALSE
    /\ mutexState = "uninit"
    /\ mutexHolder = NoHolder
    /\ mutexKind = "unknown"
    /\ clients = [i \in Slots |-> EmptyClient]
    /\ client_count = 0
    /\ open = {}
    /\ nextSock = ListenSock
    /\ pc = [t \in Threads |->
                IF t = Main THEN "init"
                ELSE IF t = Acceptor THEN "unstarted" ELSE "idle"]
    /\ arg = [t \in Threads |-> 0]
    /\ res = [t \in Threads |-> 0]
    /\ stop_i = 0
    /\ cur = NoConn
    /\ connectedCnt = [i \in Slots |-> 0]
    /\ disconnectedCnt = [i \in Slots |-> 0]
    /\ sent101 = {}
    /\ initFail = "none"
    /\ aliveAtStop = {}
    /\ nAddOk = 0
    /\ acceptedAfterStop = 0

(***************************************************************************)
(* The WebSocket frame codec: parse_websocket_frame and                    *)
(* create_websocket_frame.  Bytes are 0..255; a buffer is a sequence of    *)
(* bytes, C index k being element k+1.                                     *)
(***************************************************************************)
\* uint64_t values as four 16-bit limbs, least significant first.
U64(n) == <<n % 65536, (n \div 65536) % 65536, 0, 0>>

\* (x + y) mod 2^64
U64Add(x, y) ==
    LET t1 == x[1] + y[1]
        t2 == x[2] + y[2] + (t1 \div 65536)
        t3 == x[3] + y[3] + (t2 \div 65536)
        t4 == x[4] + y[4] + (t3 \div 65536)
    IN  <<t1 % 65536, t2 % 65536, t3 % 65536, t4 % 65536>>

\* ((x << 8) | b) mod 2^64, for a byte b
U64Shl8Or(x, b) ==
    LET t1 == x[1] * 256 + b
        t2 == x[2] * 256 + (t1 \div 65536)
        t3 == x[3] * 256 + (t2 \div 65536)
        t4 == x[4] * 256 + (t3 \div 65536)
    IN  <<t1 % 65536, t2 % 65536, t3 % 65536, t4 % 65536>>

\* x < y
U64Lt(x, y) ==
    \/ x[4] < y[4]
    \/ x[4] = y[4] /\ x[3] < y[3]
    \/ x[4] = y[4] /\ x[3] = y[3] /\ x[2] < y[2]
    \/ x[4] = y[4] /\ x[3] = y[3] /\ x[2] = y[2] /\ x[1] < y[1]

\* x is below 2^31, and then its value
U64Small(x) == x[4] = 0 /\ x[3] = 0 /\ x[2] < 32768

U64Int(x) == x[1] + 65536 * x[2]

\* data[k] of the C code
At(data, k) == data[k + 1]

\* a ^ b on bytes
RECURSIVE Xor(_, _, _)
Xor(a, b, bits) ==
    IF bits = 0 THEN 0
    ELSE ((a + b) % 2) + 2 * Xor(a \div 2, b \div 2, bits - 1)

\* webrtc_server.c:168-169: malloc(size) returns NULL when the allocator
\* has no memory (avail false) and for a size above PTRDIFF_MAX; malloc(0)
\* may return a pointer.
MallocSucceeds(size, avail) == avail /\ size[4] < 32768

ParseFalse == [ret |-> FALSE, ub |-> FALSE, payload |-> <<>>, payload_len |-> 0]

\* webrtc_server.c:158-160
ExtendedLength64(data) ==
    LET step(x, i) == U64Shl8Or(x, At(data, 2 + i))
    IN  step(step(step(step(step(step(step(step(U64(0),
          0), 1), 2), 3), 4), 5), 6), 7)

\* webrtc_server.c:166
FrameIncomplete(len, header_len, payload_length) ==
    U64Lt(U64(len), U64Add(U64(header_len), payload_length))

\* webrtc_server.c:153
ExtendedLength16(data) == (At(data, 2) * 256) + At(data, 3)

\* webrtc_server.c:176-179: mask[i % 4], the mask being the four bytes at
\* data + header_len - 4; with the mutant that takes the four bytes from the
\* start of the payload
MaskByte_AtPayload(data, header_len, i) == At(data, header_len + (i % 4))

MaskByte(data, header_len, i) == At(data, header_len - 4 + (i % 4))

\* webrtc_server.c:141-184.  ub: the memcpy of line 171 reads beyond
\* data[len-1] (and writes beyond the allocation).
ParseFrame(data, len, avail) ==
    IF len < 2 THEN ParseFalse
    ELSE
    LET masked == (At(data, 1) \div 128) = 1
        len7 == At(data, 1) % 128
    IN
    IF len7 = 126 /\ len < 4 THEN ParseFalse
    ELSE IF len7 = 127 /\ len < 10 THEN ParseFalse
    ELSE
    LET payload_length ==
            IF len7 = 126 THEN U64(ExtendedLength16(data))
            ELSE IF len7 = 127 THEN ExtendedLength64(data)
            ELSE U64(len7)
        header_len ==
            (IF len7 = 126 THEN 4 ELSE IF len7 = 127 THEN 10 ELSE 2)
            + (IF masked THEN 4 ELSE 0)
    IN
    IF FrameIncomplete(len, header_len, payload_length) THEN ParseFalse
    ELSE IF ~MallocSucceeds(U64Add(payload_length, U64(1)), avail)
    THEN ParseFalse
    ELSE IF \/ ~U64Small(payload_length)
            \/ header_len + U64Int(payload_length) > len
    THEN [ret |-> TRUE, ub |-> TRUE, payload |-> <<>>, payload_len |-> 0]
    ELSE
    LET n == U64Int(payload_length)
    IN  [ret |-> TRUE, ub |-> FALSE,
         payload |->
            [i \in 1 .. n + 1 |->
                IF i = n + 1 THEN 0
                ELSE IF masked
                THEN Xor(At(data, header_len + i - 1),
                         MaskByte(data, header_len, i - 1), 8)
                ELSE At(data, header_len + i - 1)],
         payload_len |-> n]

\* webrtc_server.c:191-195, with the mutant that moves the boundary
FrameHeaderLen_Off(payload_len) ==
    IF payload_len > 65535 THEN 10
    ELSE IF payload_len > 126 THEN 4 ELSE 2

FrameHeaderLen(payload_len) ==
    IF payload_len > 65535 THEN 10
    ELSE IF payload_len > 125 THEN 4 ELSE 2

\* (payload_len >> (8 * k)) & 0xFF, for payload_len below 2^31
LengthByte(payload_len, k) ==
    IF k >= 4 THEN 0 ELSE (payload_len \div (256 ^ k)) % 256

\* webrtc_server.c:187-218: [ret, frame, frame_len]
CreateFrame(payload, payload_len, avail) ==
    LET header_len == FrameHeaderLen(payload_len)
        frame_len == header_len + payload_len
    IN
    IF ~MallocSucceeds(U64(frame_len), avail)
    THEN [ret |-> FALSE, frame |-> <<>>, frame_len |-> frame_len]
    ELSE [ret |-> TRUE,
          frame |->
            [i \in 1 .. frame_len |->
               IF i = 1 THEN 129
               ELSE IF i > header_len THEN payload[i - header_len]
               ELSE IF header_len = 10
                    THEN (IF i = 2 THEN 127 ELSE LengthByte(payload_len, 10 - i))
               ELSE IF header_len = 4
                    THEN (IF i = 2 THEN 126 ELSE LengthByte(payload_len, 4 - i))
               ELSE payload_len % 128],
          frame_len |-> frame_len]

(***************************************************************************)
(* Inputs of the codec                                                     *)
(***************************************************************************)
\* The payloads handed to create_websocket_frame: the given lengths, filled
\* with bytes that differ from place to place.
PayloadLens == {0, 1, 2, 125, 126, 127, 65535, 65536}

MaxSeed == 1

Payload(len, seed) == [i \in 1 .. len |-> (seed + 7 * i) % 256]

\* The buffers handed to parse_websocket_frame besides the built frames:
\* the first n bytes (n up to MaxBufLen) of a header declaring some length,
\* an optional mask key, and body bytes.
MaxBufLen == 20

DeclaredLengths ==
    [len7 : {0, 1, 2, 5, 125}, ext : {U64(0)}]
    \cup [len7 : {126}, ext : {U64(0), U64(5), U64(126), U64(65535)}]
    \cup [len7 : {127},
          ext : {U64(0), U64(5), U64(65536),
                 <<0, 0, 1, 0>>,
                 <<65535, 65535, 65535, 32767>>,
                 <<0, 0, 0, 32768>>,
                 <<65522, 65535, 65535, 65535>>,
                 <<65526, 65535, 65535, 65535>>,
                 <<65534, 65535, 65535, 65535>>,
                 <<65535, 65535, 65535, 65535>>}]

MaskKey == <<1, 2, 3, 4>>

\* The length that a header declares, and the length of the header.
Declared(d) == IF d.len7 >= 126 THEN d.ext ELSE U64(d.len7)

WireHeaderLen(d, masked) ==
    (IF d.len7 = 126 THEN 4 ELSE IF d.len7 = 127 THEN 10 ELSE 2)
    + (IF masked THEN 4 ELSE 0)

WireHeader(d, masked) ==
    <<129, (IF masked THEN 128 ELSE 0) + d.len7>>
    \o (IF d.len7 = 126
        THEN <<d.ext[1] \div 256, d.ext[1] % 256>>
        ELSE IF d.len7 = 127
        THEN <<d.ext[4] \div 256, d.ext[4] % 256,
               d.ext[3] \div 256, d.ext[3] % 256,
               d.ext[2] \div 256, d.ext[2] % 256,
               d.ext[1] \div 256, d.ext[1] % 256>>
        ELSE <<>>)
    \o (IF masked THEN MaskKey ELSE <<>>)

Wire(d, masked, n) ==
    LET h == WireHeader(d, masked)
    IN  [i \in 1 .. n |-> IF i <= Len(h) THEN h[i] ELSE (65 + i) % 256]

CodecOff == [pc |-> "off", payload |-> <<>>, buf |-> <<>>,
             decl |-> [len7 |-> 0, ext |-> U64(0)],
             masked |-> FALSE, avail |-> TRUE, out |-> ParseFalse]


Init ==
    /\ InitServer
    /\ budget = Budget(MaxConns, MaxOther, MaxApiAdds, MaxApiRemoves,
                       MaxPushes)
    /\ codec = CodecOff

InitFill ==
    /\ InitServer
    /\ budget = Budget(FillConns, FillOther, 0, FillApiRemoves, 0)
    /\ codec = CodecOff

----
\* sc_mutex (util/thread.h).  A thread that locks it while another thread
\* holds it waits.  What a lock by the holding thread itself does depends on
\* the build: the mutex is recursive and counts the locks, or it is plain
\* and the thread waits for itself forever.  The first such lock shows which
\* (MutexRelock).
MutexLock(t) ==
    /\ mutexState = "alive"
    /\ \/ mutexHolder.owner = NoThread
       \/ mutexHolder.owner = t /\ mutexKind = "recursive"
    /\ mutexHolder' = [owner |-> t, count |-> mutexHolder.count + 1]

MutexRelock(t) ==
    /\ mutexState = "alive"
    /\ mutexHolder.owner = t
    /\ mutexKind = "unknown"
    /\ mutexKind' \in {"plain", "recursive"}

MutexUnlock(t) ==
    /\ mutexHolder.owner = t
    /\ mutexHolder' = IF mutexHolder.count = 1 THEN NoHolder
                      ELSE [mutexHolder EXCEPT !.count = @ - 1]

----
(***************************************************************************)
(* sc_webrtc_server_init                                                   *)
(***************************************************************************)
\* webrtc_server.c:415-423
InitMutex ==
    /\ pc[Main] = "init"
    /\ stopped' = FALSE
    /\ client_count' = 0
    /\ \E ok \in BOOLEAN :
         IF ok
         THEN /\ mutexState' = "alive"
              /\ pc' = [pc EXCEPT ![Main] = "init_socket"]
              /\ UNCHANGED initFail
         ELSE /\ pc' = [pc EXCEPT ![Main] = "init_failed"]
              /\ initFail' = "mutex"
              /\ UNCHANGED mutexState
    /\ UNCHANGED <<mutexKind, server_socket, mutexHolder, clients, open,
                   nextSock, arg, res, stop_i, cur, connectedCnt,
                   disconnectedCnt, sent101, aliveAtStop, budget, nAddOk,
                   codec, acceptedAfterStop>>

\* webrtc_server.c:429-434
InitSocket ==
    /\ pc[Main] = "init_socket"
    /\ \E ok \in BOOLEAN :
         IF ok
         THEN /\ server_socket' = nextSock
              /\ open' = open \cup {nextSock}
              /\ nextSock' = nextSock + 1
              /\ pc' = [pc EXCEPT ![Main] = "init_listen"]
              /\ UNCHANGED <<mutexState, initFail, aliveAtStop>>
         ELSE /\ server_socket' = SC_SOCKET_NONE
              /\ mutexState' = "destroyed"
              /\ pc' = [pc EXCEPT ![Main] = "init_failed"]
              /\ initFail' = "socket"
              /\ UNCHANGED <<open, nextSock>>
    /\ UNCHANGED <<mutexKind, stopped, mutexHolder, clients, client_count,
                   arg, res, stop_i, cur, connectedCnt, disconnectedCnt,
                   sent101, aliveAtStop, budget, nAddOk, codec,
                   acceptedAfterStop>>

\* webrtc_server.c:437-446, with the mutant that forgets net_close
InitListen_NoClose ==
    /\ pc[Main] = "init_listen"
    /\ \E ok \in BOOLEAN :
         IF ok
         THEN /\ pc' = [pc EXCEPT ![Main] = "initialized"]
              /\ UNCHANGED <<open, mutexState, initFail, aliveAtStop>>
         ELSE /\ open' = open
              /\ mutexState' = "destroyed"
              /\ pc' = [pc EXCEPT ![Main] = "init_failed"]
              /\ initFail' = "listen"
    /\ UNCHANGED <<mutexKind, server_socket, stopped, mutexHolder, clients,
                   client_count, nextSock, arg, res, stop_i, cur,
                   connectedCnt, disconnectedCnt, sent101, aliveAtStop,
                   budget, nAddOk, codec, acceptedAfterStop>>

InitListen ==
    /\ pc[Main] = "init_listen"
    /\ \E ok \in BOOLEAN :
         IF ok
         THEN /\ pc' = [pc EXCEPT ![Main] = "initialized"]
              /\ UNCHANGED <<open, mutexState, initFail, aliveAtStop>>
         ELSE /\ open' = open \ {server_socket}
              /\ mutexState' = "destroyed"
              /\ pc' = [pc EXCEPT ![Main] = "init_failed"]
              /\ initFail' = "listen"
    /\ UNCHANGED <<mutexKind, server_socket, stopped, mutexHolder, clients,
                   client_count, nextSock, arg, res, stop_i, cur,
                   connectedCnt, disconnectedCnt, sent101, aliveAtStop,
                   budget, nAddOk, codec, acceptedAfterStop>>

(***************************************************************************)
(* sc_webrtc_server_start                                                  *)
(***************************************************************************)
\* webrtc_server.c:450-460
Start ==
    /\ pc[Main] = "initialized"
    /\ \E ok \in BOOLEAN :
         IF ok
         THEN pc' = [pc EXCEPT ![Main] = "running", ![Acceptor] = "loop"]
         ELSE pc' = [pc EXCEPT ![Main] = "start_failed"]
    /\ UNCHANGED <<server_socket, stopped, mutexState, mutexKind, mutexHolder,
                   clients, client_count, open, nextSock, arg, res, stop_i,
                   cur, connectedCnt, disconnectedCnt, sent101, initFail,
                   aliveAtStop, budget, nAddOk, codec, acceptedAfterStop>>

(***************************************************************************)
(* sc_webrtc_server_add_client                                             *)
(***************************************************************************)
\* webrtc_server.c:326, with the off-by-one mutant
AddClientFull_OffByOne(count) == count > SC_WEBRTC_MAX_CLIENTS

AddClientFull(count) == count >= SC_WEBRTC_MAX_CLIENTS

\* webrtc_server.c:331
AddClientId(count) == count

\* webrtc_server.c:324, with the mutant that enters the body without the
\* mutex
AddLock_NoMutex(t) ==
    /\ pc[t] = "add_lock"
    /\ pc' = [pc EXCEPT ![t] = "add_check"]
    /\ UNCHANGED <<server_socket, stopped, mutexState, mutexKind, mutexHolder,
                   clients, client_count, open, nextSock, arg, res, stop_i,
                   cur, connectedCnt, disconnectedCnt, sent101, initFail,
                   aliveAtStop, budget, nAddOk, codec, acceptedAfterStop>>

\* webrtc_server.c:324
AddLock(t) ==
    /\ pc[t] = "add_lock"
    /\ MutexLock(t)
    /\ pc' = [pc EXCEPT ![t] = "add_check"]
    /\ UNCHANGED <<server_socket, stopped, mutexState, mutexKind, clients,
                   client_count, open, nextSock, arg, res, stop_i, cur,
                   connectedCnt, disconnectedCnt, sent101, initFail,
                   aliveAtStop, budget, nAddOk, codec, acceptedAfterStop>>

\* webrtc_server.c:326-331: the test for a full table and the read of the
\* next id; res holds -1 or client_id
AddCheck(t) ==
    /\ pc[t] = "add_check"
    /\ IF AddClientFull(client_count)
       THEN /\ res' = [res EXCEPT ![t] = -1]
            /\ pc' = [pc EXCEPT ![t] = "add_unlock"]
       ELSE /\ res' = [res EXCEPT ![t] = AddClientId(client_count)]
            /\ pc' = [pc EXCEPT ![t] = "add_body"]
    /\ UNCHANGED <<server_socket, stopped, mutexState, mutexKind, mutexHolder,
                   clients, client_count, open, nextSock, arg, stop_i, cur,
                   connectedCnt, disconnectedCnt, sent101, initFail,
                   aliveAtStop, budget, nAddOk, codec, acceptedAfterStop>>

\* webrtc_server.c:332-341: the slot clients[client_id] is written and
\* client_count is incremented
AddBody(t) ==
    /\ pc[t] = "add_body"
    /\ LET client_id == res[t] IN
       /\ clients' = [clients EXCEPT ![client_id] =
                        [socket |-> arg[t], connected |-> TRUE,
                         peer_connection |-> FALSE]]
       /\ client_count' = client_count + 1
       /\ nAddOk' = nAddOk + 1
    /\ pc' = [pc EXCEPT ![t] = "add_unlock"]
    /\ UNCHANGED <<server_socket, stopped, mutexState, mutexKind, mutexHolder,
                   open, nextSock, arg, res, stop_i, cur, connectedCnt,
                   disconnectedCnt, sent101, initFail, aliveAtStop, budget,
                   codec, acceptedAfterStop>>

\* webrtc_server.c:327-328, 343-344: unlock and return to the caller
AddUnlock(t) ==
    /\ pc[t] = "add_unlock"
    /\ MutexUnlock(t)
    /\ pc' = [pc EXCEPT ![t] = IF t = Acceptor THEN "ws_added" ELSE "idle"]
    /\ arg' = [arg EXCEPT ![t] = 0]
    /\ res' = [res EXCEPT ![t] = IF t = Acceptor THEN @ ELSE 0]
    /\ UNCHANGED <<server_socket, stopped, mutexState, mutexKind, clients,
                   client_count, open, nextSock, stop_i, cur, connectedCnt,
                   disconnectedCnt, sent101, initFail, aliveAtStop, budget,
                   nAddOk, codec, acceptedAfterStop>>

(***************************************************************************)
(* sc_webrtc_server_remove_client                                          *)
(***************************************************************************)
\* webrtc_server.c:351, 354, with the mutant that drops the test of
\* client->connected
RemoveApplies_NoAliveTest(id) ==
    /\ id >= 0
    /\ id < client_count

RemoveApplies(id) ==
    /\ id >= 0
    /\ id < client_count
    /\ clients[id].connected

\* webrtc_server.c:349
RemoveLock(t) ==
    /\ pc[t] = "rm_lock"
    /\ MutexLock(t)
    /\ pc' = [pc EXCEPT ![t] = "rm_body"]
    /\ UNCHANGED <<server_socket, stopped, mutexState, mutexKind, clients,
                   client_count, open, nextSock, arg, res, stop_i, cur,
                   connectedCnt, disconnectedCnt, sent101, initFail,
                   aliveAtStop, budget, nAddOk, codec, acceptedAfterStop>>

\* webrtc_server.c:349, reached from sc_webrtc_server_stop (line 471) with
\* the mutex held by the calling thread
RemoveRelock(t) ==
    /\ pc[t] = "rm_lock"
    /\ MutexRelock(t)
    /\ UNCHANGED <<server_socket, stopped, mutexState, mutexHolder, clients,
                   client_count, open, nextSock, pc, arg, res, stop_i, cur,
                   connectedCnt, disconnectedCnt, sent101, initFail,
                   aliveAtStop, budget, nAddOk, codec, acceptedAfterStop>>

\* webrtc_server.c:351-370, with the mutant that leaves the transport open
RemoveBody_NoClose(t) ==
    /\ pc[t] = "rm_body"
    /\ IF RemoveApplies(arg[t])
       THEN /\ clients' = [clients EXCEPT ![arg[t]].connected = FALSE,
                                          ![arg[t]].peer_connection = FALSE]
            /\ disconnectedCnt' = [disconnectedCnt EXCEPT ![arg[t]] = @ + 1]
            /\ res' = [res EXCEPT ![t] = 1]
       ELSE /\ res' = [res EXCEPT ![t] = 0]
            /\ UNCHANGED <<clients, disconnectedCnt>>
    /\ pc' = [pc EXCEPT ![t] = "rm_unlock"]
    /\ UNCHANGED <<server_socket, stopped, mutexState, mutexKind, mutexHolder,
                   client_count, open, nextSock, arg, stop_i, cur,
                   connectedCnt, sent101, initFail, aliveAtStop, budget,
                   nAddOk, codec, acceptedAfterStop>>

\* webrtc_server.c:351-370, with the mutant that gives the slot back by
\* decrementing client_count
RemoveBody_FreesSlot(t) ==
    /\ pc[t] = "rm_body"
    /\ IF RemoveApplies(arg[t])
       THEN /\ clients' = [clients EXCEPT ![arg[t]].connected = FALSE,
                                          ![arg[t]].peer_connection = FALSE]
            /\ open' = open \ {clients[arg[t]].socket}
            /\ disconnectedCnt' = [disconnectedCnt EXCEPT ![arg[t]] = @ + 1]
            /\ res' = [res EXCEPT ![t] = 1]
            /\ client_count' = client_count - 1
       ELSE /\ res' = [res EXCEPT ![t] = 0]
            /\ UNCHANGED <<clients, open, disconnectedCnt, client_count>>
    /\ pc' = [pc EXCEPT ![t] = "rm_unlock"]
    /\ UNCHANGED <<server_socket, stopped, mutexState, mutexKind, mutexHolder,
                   nextSock, arg, stop_i, cur, connectedCnt, sent101,
                   initFail, aliveAtStop, budget, nAddOk, codec,
                   acceptedAfterStop>>

\* webrtc_server.c:351-370: the callback is invoked inside the locked region;
\* res notes whether the body found a live client
RemoveBody(t) ==
    /\ pc[t] = "rm_body"
    /\ IF RemoveApplies(arg[t])
       THEN /\ clients' = [clients EXCEPT ![arg[t]].connected = FALSE,
                                          ![arg[t]].peer_connection = FALSE]
            /\ open' = open \ {clients[arg[t]].socket}
            /\ disconnectedCnt' = [disconnectedCnt EXCEPT ![arg[t]] = @ + 1]
            /\ res' = [res EXCEPT ![t] = 1]
       ELSE /\ res' = [res EXCEPT ![t] = 0]
            /\ UNCHANGED <<clients, open, disconnectedCnt>>
    /\ pc' = [pc EXCEPT ![t] = "rm_unlock"]
    /\ UNCHANGED <<server_socket, stopped, mutexState, mutexKind, mutexHolder,
                   client_count, nextSock, arg, stop_i, cur, connectedCnt,
                   sent101, initFail, aliveAtStop, budget, nAddOk, codec,
                   acceptedAfterStop>>

\* webrtc_server.c:372: unlock and return to the caller; in
\* sc_webrtc_server_stop the loop goes on with i++ (line 469)
RemoveUnlock(t) ==
    /\ pc[t] = "rm_unlock"
    /\ MutexUnlock(t)
    /\ pc' = [pc EXCEPT ![t] = IF t = Main THEN "stop_loop" ELSE "idle"]
    /\ stop_i' = IF t = Main THEN stop_i + 1 ELSE stop_i
    /\ arg' = [arg EXCEPT ![t] = 0]
    /\ res' = [res EXCEPT ![t] = 0]
    /\ UNCHANGED <<server_socket, stopped, mutexState, mutexKind, clients,
                   client_count, open, nextSock, cur, connectedCnt,
                   disconnectedCnt, sent101, initFail, aliveAtStop, budget,
                   nAddOk, codec, acceptedAfterStop>>

(***************************************************************************)
(* run_webrtc_server, sc_webrtc_server_handle_http,                        *)
(* sc_webrtc_server_handle_websocket                                       *)
(***************************************************************************)
\* webrtc_server.c:298: the Sec-WebSocket-Accept value of the response
AcceptToken(key) == "s3pPLMBiTxaQ9kYGzzhZRbK+xOo="

\* webrtc_server.c:390, with the mutant that goes on accepting whatever the
\* stop flag says
LoopCheck_IgnoresStopped ==
    /\ pc[Acceptor] = "loop"
    /\ pc' = [pc EXCEPT ![Acceptor] = "accept"]
    /\ UNCHANGED <<server_socket, stopped, mutexState, mutexKind, mutexHolder,
                   clients, client_count, open, nextSock, arg, res, stop_i,
                   cur, connectedCnt, disconnectedCnt, sent101, initFail,
                   aliveAtStop, budget, nAddOk, codec, acceptedAfterStop>>

\* webrtc_server.c:390, 407-408
LoopCheck ==
    /\ pc[Acceptor] = "loop"
    /\ pc' = [pc EXCEPT ![Acceptor] = IF stopped THEN "done" ELSE "accept"]
    /\ UNCHANGED <<server_socket, stopped, mutexState, mutexKind, mutexHolder,
                   clients, client_count, open, nextSock, arg, res, stop_i,
                   cur, connectedCnt, disconnectedCnt, sent101, initFail,
                   aliveAtStop, budget, nAddOk, codec, acceptedAfterStop>>

\* webrtc_server.c:391: net_accept returns a new connection
AcceptOk ==
    /\ pc[Acceptor] = "accept"
    /\ server_socket \in open
    /\ budget.conns > 0
    /\ budget' = [budget EXCEPT !.conns = @ - 1]
    /\ open' = open \cup {nextSock}
    /\ cur' = [sock |-> nextSock, path |-> "accepted", key |-> "none"]
    /\ nextSock' = nextSock + 1
    /\ acceptedAfterStop' = acceptedAfterStop + (IF stopped THEN 1 ELSE 0)
    /\ pc' = [pc EXCEPT ![Acceptor] = "recv"]
    /\ UNCHANGED <<server_socket, stopped, mutexState, mutexKind, mutexHolder,
                   clients, client_count, arg, res, stop_i, connectedCnt,
                   disconnectedCnt, sent101, initFail, aliveAtStop, nAddOk,
                   codec>>

\* webrtc_server.c:391-397, with the mutant that leaves the loop when
\* net_accept fails
AcceptError_Exit ==
    /\ pc[Acceptor] = "accept"
    /\ server_socket \in open
    /\ pc' = [pc EXCEPT ![Acceptor] = "done"]
    /\ UNCHANGED <<server_socket, stopped, mutexState, mutexKind, mutexHolder,
                   clients, client_count, open, nextSock, arg, res, stop_i,
                   cur, connectedCnt, disconnectedCnt, sent101, initFail,
                   aliveAtStop, budget, nAddOk, codec, acceptedAfterStop>>

\* webrtc_server.c:391-397: net_accept fails on the open listening socket
AcceptError ==
    /\ pc[Acceptor] = "accept"
    /\ server_socket \in open
    /\ pc' = [pc EXCEPT ![Acceptor] = "loop"]
    /\ UNCHANGED <<server_socket, stopped, mutexState, mutexKind, mutexHolder,
                   clients, client_count, open, nextSock, arg, res, stop_i,
                   cur, connectedCnt, disconnectedCnt, sent101, initFail,
                   aliveAtStop, budget, nAddOk, codec, acceptedAfterStop>>

\* webrtc_server.c:391-397: net_accept fails because the listening socket
\* has been closed
AcceptClosed ==
    /\ pc[Acceptor] = "accept"
    /\ server_socket \notin open
    /\ pc' = [pc EXCEPT ![Acceptor] = "loop"]
    /\ UNCHANGED <<server_socket, stopped, mutexState, mutexKind, mutexHolder,
                   clients, client_count, open, nextSock, arg, res, stop_i,
                   cur, connectedCnt, disconnectedCnt, sent101, initFail,
                   aliveAtStop, budget, nAddOk, codec, acceptedAfterStop>>

\* webrtc_server.c:269-280: the single net_recv and the test for
\* "Upgrade: websocket"
Recv ==
    /\ pc[Acceptor] = "recv"
    /\ \/ /\ budget.other > 0
          /\ budget' = [budget EXCEPT !.other = @ - 1]
          /\ cur' = [cur EXCEPT !.path = "recv_fail"]
          /\ pc' = [pc EXCEPT ![Acceptor] = "close"]
       \/ /\ budget.other > 0
          /\ budget' = [budget EXCEPT !.other = @ - 1]
          /\ cur' = [cur EXCEPT !.path = "html"]
          /\ pc' = [pc EXCEPT ![Acceptor] = "html_send"]
       \/ \E k \in Keys :
             /\ cur' = [cur EXCEPT !.path = "ws", !.key = k]
             /\ pc' = [pc EXCEPT ![Acceptor] = "ws_send"]
             /\ UNCHANGED budget
    /\ UNCHANGED <<server_socket, stopped, mutexState, mutexKind, mutexHolder,
                   clients, client_count, open, nextSock, arg, res, stop_i,
                   connectedCnt, disconnectedCnt, sent101, initFail,
                   aliveAtStop, nAddOk, codec, acceptedAfterStop>>

\* webrtc_server.c:283-287 and 401-404: on success handle_http returns true
\* and the loop leaves the socket as it is
HtmlSend ==
    /\ pc[Acceptor] = "html_send"
    /\ \E sent_ok \in BOOLEAN :
         IF sent_ok
         THEN /\ cur' = NoConn
              /\ pc' = [pc EXCEPT ![Acceptor] = "loop"]
         ELSE /\ cur' = [cur EXCEPT !.path = "html_fail"]
              /\ pc' = [pc EXCEPT ![Acceptor] = "close"]
    /\ UNCHANGED <<server_socket, stopped, mutexState, mutexKind, mutexHolder,
                   clients, client_count, open, nextSock, arg, res, stop_i,
                   connectedCnt, disconnectedCnt, sent101, initFail,
                   aliveAtStop, budget, nAddOk, codec, acceptedAfterStop>>

\* webrtc_server.c:294-307: send the 101 response, then call add_client
WsSend ==
    /\ pc[Acceptor] = "ws_send"
    /\ \E sent_ok \in BOOLEAN :
         IF sent_ok
         THEN /\ sent101' = sent101 \cup
                    {[key |-> cur.key, token |-> AcceptToken(cur.key)]}
              /\ arg' = [arg EXCEPT ![Acceptor] = cur.sock]
              /\ pc' = [pc EXCEPT ![Acceptor] = "add_lock"]
              /\ cur' = [cur EXCEPT !.key = "none"]
              /\ UNCHANGED budget
         ELSE /\ budget.other > 0
              /\ budget' = [budget EXCEPT !.other = @ - 1]
              /\ cur' = [cur EXCEPT !.path = "ws_send_fail", !.key = "none"]
              /\ pc' = [pc EXCEPT ![Acceptor] = "close"]
              /\ UNCHANGED <<sent101, arg>>
    /\ UNCHANGED <<server_socket, stopped, mutexState, mutexKind, mutexHolder,
                   clients, client_count, open, nextSock, res, stop_i,
                   connectedCnt, disconnectedCnt, initFail, aliveAtStop,
                   nAddOk, codec, acceptedAfterStop>>

\* webrtc_server.c:307-318, with the mutant that returns after a successful
\* add_client without calling the connected callback
WsAdded_NoCallback ==
    /\ pc[Acceptor] = "ws_added"
    /\ IF res[Acceptor] < 0
       THEN /\ cur' = [cur EXCEPT !.path = "ws_full"]
            /\ pc' = [pc EXCEPT ![Acceptor] = "close"]
            /\ UNCHANGED res
       ELSE /\ cur' = NoConn
            /\ res' = [res EXCEPT ![Acceptor] = 0]
            /\ pc' = [pc EXCEPT ![Acceptor] = "loop"]
    /\ UNCHANGED <<server_socket, stopped, mutexState, mutexKind, mutexHolder,
                   clients, client_count, open, nextSock, arg, stop_i,
                   connectedCnt, disconnectedCnt, sent101, initFail,
                   aliveAtStop, budget, nAddOk, codec, acceptedAfterStop>>

\* webrtc_server.c:307-310
WsAdded ==
    /\ pc[Acceptor] = "ws_added"
    /\ IF res[Acceptor] < 0
       THEN /\ cur' = [cur EXCEPT !.path = "ws_full"]
            /\ pc' = [pc EXCEPT ![Acceptor] = "close"]
       ELSE /\ pc' = [pc EXCEPT ![Acceptor] = "ws_cb"]
            /\ UNCHANGED cur
    /\ UNCHANGED <<server_socket, stopped, mutexState, mutexKind, mutexHolder,
                   clients, client_count, open, nextSock, arg, res, stop_i,
                   connectedCnt, disconnectedCnt, sent101, initFail,
                   aliveAtStop, budget, nAddOk, codec, acceptedAfterStop>>

\* webrtc_server.c:312-318
WsConnectedCb ==
    /\ pc[Acceptor] = "ws_cb"
    /\ connectedCnt' = [connectedCnt EXCEPT ![res[Acceptor]] = @ + 1]
    /\ cur' = NoConn
    /\ res' = [res EXCEPT ![Acceptor] = 0]
    /\ pc' = [pc EXCEPT ![Acceptor] = "loop"]
    /\ UNCHANGED <<server_socket, stopped, mutexState, mutexKind, mutexHolder,
                   clients, client_count, open, nextSock, arg, stop_i,
                   disconnectedCnt, sent101, initFail, aliveAtStop, budget,
                   nAddOk, codec, acceptedAfterStop>>

\* webrtc_server.c:402-404, with the mutant that leaves the socket open
CloseUnhandled_Leak ==
    /\ pc[Acceptor] = "close"
    /\ cur' = NoConn
    /\ res' = [res EXCEPT ![Acceptor] = 0]
    /\ pc' = [pc EXCEPT ![Acceptor] = "loop"]
    /\ UNCHANGED <<server_socket, stopped, mutexState, mutexKind, mutexHolder,
                   clients, client_count, open, nextSock, arg, stop_i,
                   connectedCnt, disconnectedCnt, sent101, initFail,
                   aliveAtStop, budget, nAddOk, codec, acceptedAfterStop>>

CloseUnhandled ==
    /\ pc[Acceptor] = "close"
    /\ open' = open \ {cur.sock}
    /\ cur' = NoConn
    /\ res' = [res EXCEPT ![Acceptor] = 0]
    /\ pc' = [pc EXCEPT ![Acceptor] = "loop"]
    /\ UNCHANGED <<server_socket, stopped, mutexState, mutexKind, mutexHolder,
                   clients, client_count, nextSock, arg, stop_i, connectedCnt,
                   disconnectedCnt, sent101, initFail, aliveAtStop, budget,
                   nAddOk, codec, acceptedAfterStop>>

(***************************************************************************)
(* sc_webrtc_server_stop, sc_webrtc_server_join, sc_webrtc_server_destroy  *)
(***************************************************************************)
\* webrtc_server.c:465
StopSetFlag ==
    /\ pc[Main] \in {"running", "start_failed"}
    /\ stopped' = TRUE
    /\ aliveAtStop' = {i \in Slots : i < client_count /\ clients[i].connected}
    /\ pc' = [pc EXCEPT ![Main] = "stop_lock"]
    /\ UNCHANGED <<server_socket, mutexState, mutexKind, mutexHolder, clients,
                   client_count, open, nextSock, arg, res, stop_i, cur,
                   connectedCnt, disconnectedCnt, sent101, initFail, budget,
                   nAddOk, codec, acceptedAfterStop>>

\* webrtc_server.c:468-469
StopLock ==
    /\ pc[Main] = "stop_lock"
    /\ MutexLock(Main)
    /\ stop_i' = 0
    /\ pc' = [pc EXCEPT ![Main] = "stop_loop"]
    /\ UNCHANGED <<server_socket, stopped, mutexState, mutexKind, clients,
                   client_count, open, nextSock, arg, res, cur, connectedCnt,
                   disconnectedCnt, sent101, initFail, aliveAtStop, budget,
                   nAddOk, codec, acceptedAfterStop>>

\* webrtc_server.c:469-473: one iteration; a live client leads into
\* sc_webrtc_server_remove_client with the mutex still held
StopLoop ==
    /\ pc[Main] = "stop_loop"
    /\ IF stop_i < client_count
       THEN IF clients[stop_i].connected
            THEN /\ arg' = [arg EXCEPT ![Main] = stop_i]
                 /\ pc' = [pc EXCEPT ![Main] = "rm_lock"]
                 /\ UNCHANGED stop_i
            ELSE /\ stop_i' = stop_i + 1
                 /\ UNCHANGED <<arg, pc>>
       ELSE /\ pc' = [pc EXCEPT ![Main] = "stop_unlock"]
            /\ UNCHANGED <<arg, stop_i>>
    /\ UNCHANGED <<server_socket, stopped, mutexState, mutexKind, mutexHolder,
                   clients, client_count, open, nextSock, res, cur,
                   connectedCnt, disconnectedCnt, sent101, initFail,
                   aliveAtStop, budget, nAddOk, codec, acceptedAfterStop>>

\* webrtc_server.c:474
StopUnlock ==
    /\ pc[Main] = "stop_unlock"
    /\ MutexUnlock(Main)
    /\ pc' = [pc EXCEPT ![Main] = "stop_close"]
    /\ UNCHANGED <<server_socket, stopped, mutexState, mutexKind, clients,
                   client_count, open, nextSock, arg, res, stop_i, cur,
                   connectedCnt, disconnectedCnt, sent101, initFail,
                   aliveAtStop, budget, nAddOk, codec, acceptedAfterStop>>

\* webrtc_server.c:477-481
StopCloseSocket ==
    /\ pc[Main] = "stop_close"
    /\ IF server_socket # SC_SOCKET_NONE
       THEN /\ open' = open \ {server_socket}
            /\ server_socket' = SC_SOCKET_NONE
       ELSE UNCHANGED <<open, server_socket>>
    /\ pc' = [pc EXCEPT ![Main] = "stopped"]
    /\ UNCHANGED <<stopped, mutexState, mutexKind, mutexHolder, clients,
                   client_count, nextSock, arg, res, stop_i, cur,
                   connectedCnt, disconnectedCnt, sent101, initFail,
                   aliveAtStop, budget, nAddOk, codec, acceptedAfterStop>>

\* webrtc_server.c:484-487: sc_thread_join returns once the accept task has
\* returned; a server whose thread was never created is not joined
Join ==
    /\ pc[Main] = "stopped"
    /\ pc[Acceptor] = "done"
    /\ pc' = [pc EXCEPT ![Main] = "joined"]
    /\ UNCHANGED <<server_socket, stopped, mutexState, mutexKind, mutexHolder,
                   clients, client_count, open, nextSock, arg, res, stop_i,
                   cur, connectedCnt, disconnectedCnt, sent101, initFail,
                   aliveAtStop, budget, nAddOk, codec, acceptedAfterStop>>

\* webrtc_server.c:490-493: called once no thread is inside the server
Destroy ==
    /\ \/ pc[Main] = "joined"
       \/ pc[Main] = "stopped" /\ pc[Acceptor] = "unstarted"
    /\ \A t \in ApiThreads : pc[t] = "idle"
    /\ mutexState' = "destroyed"
    /\ pc' = [pc EXCEPT ![Main] = "destroyed"]
    /\ UNCHANGED <<mutexKind, server_socket, stopped, mutexHolder, clients,
                   client_count, open, nextSock, arg, res, stop_i, cur,
                   connectedCnt, disconnectedCnt, sent101, initFail,
                   aliveAtStop, budget, nAddOk, codec, acceptedAfterStop>>

(***************************************************************************)
(* Callers of the public registry functions (webrtc_server.h:96-101)       *)
(***************************************************************************)
\* The server is initialized and not destroyed.
ServerUsable ==
    pc[Main] \in {"initialized", "running", "start_failed", "stop_lock",
                  "stop_loop", "stop_unlock", "stop_close",
                  "rm_lock", "rm_body", "rm_unlock", "stopped", "joined"}

\* a call of sc_webrtc_server_add_client with a transport of the caller
ApiAdd(t) ==
    /\ pc[t] = "idle"
    /\ ServerUsable
    /\ budget.adds > 0
    /\ budget' = [budget EXCEPT !.adds = @ - 1]
    /\ open' = open \cup {nextSock}
    /\ arg' = [arg EXCEPT ![t] = nextSock]
    /\ nextSock' = nextSock + 1
    /\ pc' = [pc EXCEPT ![t] = "add_lock"]
    /\ UNCHANGED <<server_socket, stopped, mutexState, mutexKind, mutexHolder,
                   clients, client_count, res, stop_i, cur, connectedCnt,
                   disconnectedCnt, sent101, initFail, aliveAtStop, nAddOk,
                   codec, acceptedAfterStop>>

\* a call of sc_webrtc_server_remove_client
ApiRemove(t) ==
    /\ pc[t] = "idle"
    /\ ServerUsable
    /\ budget.removes > 0
    /\ budget' = [budget EXCEPT !.removes = @ - 1]
    /\ \E id \in RemoveIds : arg' = [arg EXCEPT ![t] = id]
    /\ pc' = [pc EXCEPT ![t] = "rm_lock"]
    /\ UNCHANGED <<server_socket, stopped, mutexState, mutexKind, mutexHolder,
                   clients, client_count, open, nextSock, res, stop_i, cur,
                   connectedCnt, disconnectedCnt, sent101, initFail,
                   aliveAtStop, nAddOk, codec, acceptedAfterStop>>

\* webrtc_server.c:239-240: the frame sink's push is called with a frame
ApiPush(t) ==
    /\ pc[t] = "idle"
    /\ ServerUsable
    /\ budget.pushes > 0
    /\ budget' = [budget EXCEPT !.pushes = @ - 1]
    /\ pc' = [pc EXCEPT ![t] = "push_lock"]
    /\ UNCHANGED <<server_socket, stopped, mutexState, mutexKind, mutexHolder,
                   clients, client_count, open, nextSock, arg, res, stop_i,
                   cur, connectedCnt, disconnectedCnt, sent101, initFail,
                   aliveAtStop, nAddOk, codec, acceptedAfterStop>>

\* webrtc_server.c:245, with the mutant that iterates without the mutex
PushLock_NoMutex(t) ==
    /\ pc[t] = "push_lock"
    /\ pc' = [pc EXCEPT ![t] = "push_loop"]
    /\ UNCHANGED <<server_socket, stopped, mutexState, mutexKind, mutexHolder,
                   clients, client_count, open, nextSock, arg, res, stop_i,
                   cur, connectedCnt, disconnectedCnt, sent101, initFail,
                   aliveAtStop, budget, nAddOk, codec, acceptedAfterStop>>

\* webrtc_server.c:245
PushLock(t) ==
    /\ pc[t] = "push_lock"
    /\ MutexLock(t)
    /\ pc' = [pc EXCEPT ![t] = "push_loop"]
    /\ UNCHANGED <<server_socket, stopped, mutexState, mutexKind, clients,
                   client_count, open, nextSock, arg, res, stop_i, cur,
                   connectedCnt, disconnectedCnt, sent101, initFail,
                   aliveAtStop, budget, nAddOk, codec, acceptedAfterStop>>

\* webrtc_server.c:247-253: the loop over clients[0 .. client_count-1]
\* reads connected and peer_connection and sends nothing
PushLoop(t) ==
    /\ pc[t] = "push_loop"
    /\ pc' = [pc EXCEPT ![t] = "push_unlock"]
    /\ UNCHANGED <<server_socket, stopped, mutexState, mutexKind, mutexHolder,
                   clients, client_count, open, nextSock, arg, res, stop_i,
                   cur, connectedCnt, disconnectedCnt, sent101, initFail,
                   aliveAtStop, budget, nAddOk, codec, acceptedAfterStop>>

\* webrtc_server.c:255-256
PushUnlock(t) ==
    /\ pc[t] = "push_unlock"
    /\ MutexUnlock(t)
    /\ pc' = [pc EXCEPT ![t] = "idle"]
    /\ UNCHANGED <<server_socket, stopped, mutexState, mutexKind, clients,
                   client_count, open, nextSock, arg, res, stop_i, cur,
                   connectedCnt, disconnectedCnt, sent101, initFail,
                   aliveAtStop, budget, nAddOk, codec, acceptedAfterStop>>

----
Next ==
    \/ InitMutex
    \/ InitSocket
    \/ InitListen
    \/ Start
    \/ LoopCheck
    \/ AcceptOk
    \/ AcceptError
    \/ AcceptClosed
    \/ Recv
    \/ HtmlSend
    \/ WsSend
    \/ WsAdded
    \/ WsConnectedCb
    \/ CloseUnhandled
    \/ StopSetFlag
    \/ StopLock
    \/ StopLoop
    \/ StopUnlock
    \/ StopCloseSocket
    \/ Join
    \/ Destroy
    \/ \E t \in Threads : AddLock(t)
    \/ \E t \in Threads : AddCheck(t)
    \/ \E t \in Threads : AddBody(t)
    \/ \E t \in Threads : AddUnlock(t)
    \/ \E t \in Threads : RemoveLock(t)
    \/ \E t \in Threads : RemoveRelock(t)
    \/ \E t \in Threads : RemoveBody(t)
    \/ \E t \in Threads : RemoveUnlock(t)
    \/ \E t \in ApiThreads : ApiAdd(t)
    \/ \E t \in ApiThreads : ApiRemove(t)
    \/ \E t \in ApiThreads : ApiPush(t)
    \/ \E t \in ApiThreads : PushLock(t)
    \/ \E t \in ApiThreads : PushLoop(t)
    \/ \E t \in ApiThreads : PushUnlock(t)

Spec == Init /\ [][Next]_vars

\* The server is initialized, started and left running while clients connect
\* until the registry is full.
NextFill ==
    \/ InitMutex
    \/ InitSocket
    \/ InitListen
    \/ Start
    \/ LoopCheck
    \/ AcceptOk
    \/ AcceptError
    \/ Recv
    \/ HtmlSend
    \/ WsSend
    \/ WsAdded
    \/ WsConnectedCb
    \/ CloseUnhandled
    \/ \E t \in Threads : AddLock(t)
    \/ \E t \in Threads : AddCheck(t)
    \/ \E t \in Threads : AddBody(t)
    \/ \E t \in Threads : AddUnlock(t)
    \/ \E t \in Threads : RemoveLock(t)
    \/ \E t \in Threads : RemoveBody(t)
    \/ \E t \in Threads : RemoveUnlock(t)
    \/ \E t \in ApiThreads : ApiRemove(t)

SpecFill == InitFill /\ [][NextFill]_vars

(***************************************************************************)
(* The registry on its own: on an initialized server that is not started,  *)
(* several threads call add_client and remove_client concurrently, more    *)
(* often than the table has slots.                                         *)
(***************************************************************************)
InitRegistry ==
    /\ InitServer
    /\ budget = Budget(0, 0, RegAdds, RegRemoves, 0)
    /\ codec = CodecOff

NextRegistry ==
    \/ InitMutex
    \/ InitSocket
    \/ InitListen
    \/ \E t \in RegistryThreads : ApiAdd(t)
    \/ \E t \in RegistryThreads : ApiRemove(t)
    \/ \E t \in RegistryThreads : AddLock(t)
    \/ \E t \in RegistryThreads : AddCheck(t)
    \/ \E t \in RegistryThreads : AddBody(t)
    \/ \E t \in RegistryThreads : AddUnlock(t)
    \/ \E t \in RegistryThreads : RemoveLock(t)
    \/ \E t \in RegistryThreads : RemoveBody(t)
    \/ \E t \in RegistryThreads : RemoveUnlock(t)

SpecRegistry == InitRegistry /\ [][NextRegistry]_vars

(***************************************************************************)
(* The registry used by one thread that adds clients, more often than the  *)
(* table has slots, and removes the oldest client alive, in any order of   *)
(* the calls, until every client is removed.                               *)
(***************************************************************************)
InitNoReuse ==
    /\ InitServer
    /\ budget = Budget(0, 0, ReuseAdds, ReuseRemoves, 0)
    /\ codec = CodecOff

\* a call of sc_webrtc_server_remove_client on the oldest client alive
ApiRemoveOldest(t) ==
    /\ pc[t] = "idle"
    /\ ServerUsable
    /\ budget.removes > 0
    /\ budget' = [budget EXCEPT !.removes = @ - 1]
    /\ LET alive == {i \in Slots : i < client_count /\ clients[i].connected}
       IN  /\ alive # {}
           /\ arg' = [arg EXCEPT ![t] =
                        CHOOSE i \in alive : \A j \in alive : i <= j]
    /\ pc' = [pc EXCEPT ![t] = "rm_lock"]
    /\ UNCHANGED <<server_socket, stopped, mutexState, mutexKind, mutexHolder,
                   clients, client_count, open, nextSock, res, stop_i, cur,
                   connectedCnt, disconnectedCnt, sent101, initFail,
                   aliveAtStop, nAddOk, codec, acceptedAfterStop>>

NextNoReuse ==
    \/ InitMutex
    \/ InitSocket
    \/ InitListen
    \/ \E t \in ApiThreads : ApiAdd(t)
    \/ \E t \in ApiThreads : ApiRemoveOldest(t)
    \/ \E t \in ApiThreads : AddLock(t)
    \/ \E t \in ApiThreads : AddCheck(t)
    \/ \E t \in ApiThreads : AddBody(t)
    \/ \E t \in ApiThreads : AddUnlock(t)
    \/ \E t \in ApiThreads : RemoveLock(t)
    \/ \E t \in ApiThreads : RemoveBody(t)
    \/ \E t \in ApiThreads : RemoveUnlock(t)

SpecNoReuse == InitNoReuse /\ [][NextNoReuse]_vars

(***************************************************************************)
(* The codec on its own: frames are built and parsed, buffers arrive and   *)
(* are parsed; the server is not running.                                  *)
(***************************************************************************)
InitCodec ==
    /\ InitServer
    /\ budget = Budget(0, 0, 0, 0, 0)
    /\ codec = [CodecOff EXCEPT !.pc = "start"]

\* create_websocket_frame on a payload
Build ==
    /\ codec.pc = "start"
    /\ \E len \in PayloadLens, seed \in 0 .. MaxSeed, avail \in BOOLEAN :
         LET p == Payload(len, seed)
             f == CreateFrame(p, len, avail)
         IN  codec' = [codec EXCEPT
                         !.pc = IF f.ret THEN "built" ELSE "build_failed",
                         !.payload = p,
                         !.buf = f.frame]
    /\ UNCHANGED serverVars

\* bytes arrive from a peer
Receive ==
    /\ codec.pc = "start"
    /\ \E d \in DeclaredLengths, masked \in BOOLEAN, n \in 0 .. MaxBufLen :
         codec' = [codec EXCEPT !.pc = "received",
                                !.buf = Wire(d, masked, n),
                                !.decl = d,
                                !.masked = masked]
    /\ UNCHANGED serverVars

\* parse_websocket_frame on the buffer
Parse ==
    /\ codec.pc \in {"built", "received"}
    /\ \E avail \in BOOLEAN :
         codec' = [codec EXCEPT
                     !.pc = IF codec.pc = "built" THEN "parsed_built"
                            ELSE "parsed_received",
                     !.avail = avail,
                     !.out = ParseFrame(codec.buf, Len(codec.buf), avail)]
    /\ UNCHANGED serverVars

NextCodec ==
    \/ Build
    \/ Receive
    \/ Parse

SpecCodec == InitCodec /\ [][NextCodec]_vars

(***************************************************************************)
(* Scheduling: a thread inside a call keeps running, a blocking call       *)
(* returns once what it waits for has happened.  Whether a client          *)
(* connects, whether accept fails on an open socket, and whether a caller  *)
(* starts a call are left to the environment.                              *)
(***************************************************************************)
MainRuns ==
    \/ StopLock
    \/ StopLoop
    \/ StopUnlock
    \/ StopCloseSocket
    \/ Join
    \/ RemoveLock(Main)
    \/ RemoveRelock(Main)
    \/ RemoveBody(Main)
    \/ RemoveUnlock(Main)

AcceptorRuns ==
    \/ LoopCheck
    \/ AcceptClosed
    \/ Recv
    \/ HtmlSend
    \/ WsSend
    \/ WsAdded
    \/ WsConnectedCb
    \/ CloseUnhandled
    \/ AddLock(Acceptor)
    \/ AddCheck(Acceptor)
    \/ AddBody(Acceptor)
    \/ AddUnlock(Acceptor)

ApiRuns(t) ==
    \/ AddLock(t)
    \/ AddCheck(t)
    \/ AddBody(t)
    \/ AddUnlock(t)
    \/ RemoveLock(t)
    \/ RemoveBody(t)
    \/ RemoveUnlock(t)
    \/ PushLock(t)
    \/ PushLoop(t)
    \/ PushUnlock(t)

SpecFair ==
    /\ Init
    /\ [][Next]_vars
    /\ WF_vars(MainRuns)
    /\ WF_vars(AcceptorRuns)
    /\ \A t \in ApiThreads : WF_vars(ApiRuns(t))

----
(***************************************************************************)
(* Properties                                                              *)
(***************************************************************************)
StopInProgress ==
    pc[Main] \in {"stop_lock", "stop_loop", "stop_unlock", "stop_close",
                  "rm_lock", "rm_body", "rm_unlock"}

StopReturned == pc[Main] \in {"stopped", "joined", "destroyed"}

Running == pc[Acceptor] # "unstarted"

\* The slots in use.
Allocated == {i \in Slots : i < client_count}

\* C1: stop(), called on a Running server with any number of live clients,
\* terminates; when it has returned the stop flag is set, every client that
\* was alive at the call is not-alive with its transport closed and the
\* listening socket is closed; the clients are disconnected before the
\* listening socket is closed.
C1_StopDisconnectsAllAndReturns ==
    /\ (StopInProgress /\ Running) ~> StopReturned
    /\ [](StopReturned /\ Running =>
            /\ stopped
            /\ ListenSock \notin open
            /\ \A i \in aliveAtStop :
                 ~clients[i].connected /\ clients[i].socket \notin open)
    /\ [][(ListenSock \in open /\ ListenSock \notin open' /\ Running) =>
            \A i \in aliveAtStop : ~clients[i].connected]_vars

\* C2: stop() called while the accept task is blocked in accept: the accept
\* task eventually leaves its loop and returns (so that join() returns).
C2_StopUnblocksAccept ==
    (pc[Main] = "stop_lock" /\ pc[Acceptor] = "accept")
        ~> (pc[Acceptor] = "done")

\* A step in which thread t completes the locked body of add_client.
AddBodyStep(t) ==
    pc[t] \in {"add_check", "add_body"} /\ pc'[t] = "add_unlock"

\* C3: the k-th successful add_client returns id k-1 (nAddOk counts the
\* earlier successes); an add_client made when the count equals the capacity
\* returns -1 and leaves the count and every slot unchanged.
C3_AddClientIdsThenFull ==
    [][\A t \in Threads :
         AddBodyStep(t) =>
            IF client_count = SC_WEBRTC_MAX_CLIENTS
            THEN /\ res'[t] = -1
                 /\ client_count' = client_count
                 /\ clients' = clients
            ELSE /\ res'[t] = nAddOk
                 /\ nAddOk < SC_WEBRTC_MAX_CLIENTS
                 /\ client_count' = client_count + 1]_vars

\* The registry got full by ten successful calls and a call has failed.
C3_Witness ==
    /\ nAddOk = SC_WEBRTC_MAX_CLIENTS
    /\ \E t \in Threads : pc[t] = "add_unlock" /\ res[t] = -1

\* A step in which thread t executes the locked body of remove_client.
RemoveBodyStep(t) == pc[t] = "rm_body" /\ pc'[t] = "rm_unlock"

\* C4: remove_client(id) on an alive client marks it not-alive, closes its
\* transport and invokes the disconnect callback once; on a client already
\* removed, or with an id out of range, it changes nothing, closes nothing
\* and invokes no callback.  No client's callback is ever invoked twice.
C4_RemoveClientOnce ==
    /\ [][\A t \in Threads :
            RemoveBodyStep(t) =>
               IF arg[t] \in Allocated /\ clients[arg[t]].connected
               THEN /\ ~clients'[arg[t]].connected
                    /\ clients[arg[t]].socket \notin open'
                    /\ disconnectedCnt'[arg[t]] = disconnectedCnt[arg[t]] + 1
                    /\ \A i \in Slots \ {arg[t]} :
                         /\ clients'[i] = clients[i]
                         /\ disconnectedCnt'[i] = disconnectedCnt[i]
               ELSE /\ clients' = clients
                    /\ client_count' = client_count
                    /\ open' = open
                    /\ disconnectedCnt' = disconnectedCnt]_vars
    /\ [](\A i \in Slots : disconnectedCnt[i] <= 1)

\* A second remove_client on a removed client has run and found nothing to do.
C4_Witness ==
    \E t \in Threads :
        /\ pc[t] = "rm_unlock"
        /\ res[t] = 0
        /\ arg[t] \in Allocated
        /\ disconnectedCnt[arg[t]] = 1

\* C7: the Sec-WebSocket-Accept token of a 101 response is computed from the
\* key of the request: requests with different keys get different tokens.
C7_TokenFollowsKey ==
    \A h1, h2 \in sent101 : h1.key # h2.key => h1.token # h2.token

\* A step that ends the accept loop's handling of a connection.
HandledStep ==
    /\ pc[Acceptor] \in {"html_send", "ws_cb", "close"}
    /\ pc'[Acceptor] = "loop"

\* C8: when the accept loop has handled a connection, its socket is, after a
\* successful upgrade, open and the transport of exactly one alive client,
\* and otherwise closed (HTML sent, or the read or a send failed).
C8_SocketOwnedOrClosed ==
    [][HandledStep =>
         IF pc[Acceptor] = "ws_cb"
         THEN /\ cur.sock \in open'
              /\ Cardinality({i \in Slots :
                                /\ i < client_count'
                                /\ clients'[i].connected
                                /\ clients'[i].socket = cur.sock}) = 1
         ELSE cur.sock \notin open']_vars

\* C9: an upgrade that finds the registry full is aborted: add_client
\* returns -1 with the count and the slots unchanged, the connected callback
\* is not invoked, the socket is closed, and the loop goes back to accept.
C9_FullUpgradeAborted ==
    [][/\ (AddBodyStep(Acceptor) /\ client_count = SC_WEBRTC_MAX_CLIENTS) =>
             /\ res'[Acceptor] = -1
             /\ client_count' = client_count
             /\ clients' = clients
             /\ connectedCnt' = connectedCnt
       /\ (pc[Acceptor] = "ws_added" /\ res[Acceptor] = -1) =>
             /\ pc'[Acceptor] \in {"ws_added", "close"}
             /\ connectedCnt' = connectedCnt
       /\ (pc[Acceptor] = "close" /\ cur.path = "ws_full") =>
             /\ connectedCnt' = connectedCnt
             /\ pc'[Acceptor] \in {"close", "loop"}
             /\ pc'[Acceptor] = "loop" =>
                  /\ cur.sock \notin open'
                  /\ \A i \in Allocated : clients'[i].socket # cur.sock
       /\ (pc[Acceptor] = "loop" /\ ~stopped) =>
             pc'[Acceptor] \in {"loop", "accept"}]_vars

\* Eleven upgrades were answered with 101, ten clients are registered, the
\* socket of the eleventh is closed and the loop is back in accept.
C9_Witness ==
    /\ pc[Acceptor] = "accept"
    /\ client_count = SC_WEBRTC_MAX_CLIENTS
    /\ budget.other = FillOther
    /\ nextSock = ListenSock + SC_WEBRTC_MAX_CLIENTS + 2
    /\ (nextSock - 1) \notin open
    /\ \A i \in Allocated : clients[i].socket # nextSock - 1
    /\ \A i \in Slots : connectedCnt[i] = 1

\* C10: a failed init leaves nothing allocated: no lock, no open socket.
C10_InitFailureReleasesAll ==
    pc[Main] = "init_failed" => (mutexState # "alive" /\ open = {})

\* bind/listen failed after the lock and the socket had been created.
C10_Witness == pc[Main] = "init_failed" /\ initFail = "listen"

\* What the buffer of a received frame lacks: the buffer is shorter than
\* the header of the frame plus the payload length that the header
\* declares, computed without wrapping.
BufferShort ==
    LET declared == Declared(codec.decl)
    IN  \/ ~U64Small(declared)
        \/ Len(codec.buf)
             < WireHeaderLen(codec.decl, codec.masked) + U64Int(declared)

\* C5: parse_websocket_frame never reads outside the buffer it is given,
\* and it returns false (insufficient data) whenever the buffer is shorter
\* than the header plus the declared payload length, whatever 64-bit
\* length the header declares, the lengths for which header length plus
\* payload length wraps modulo 2^64 included.
C5_ParseStaysInBuffer ==
    /\ codec.pc \in {"parsed_built", "parsed_received"} => ~codec.out.ub
    /\ codec.pc = "parsed_received" /\ BufferShort => ~codec.out.ret

\* C6: parsing the frame that create_websocket_frame builds from a
\* payload succeeds and returns the payload's bytes and its length, for
\* the 7-bit, the 16-bit and the 64-bit length encodings (lengths 0, 1,
\* 125, 126, 65535 and 65536 among them), whenever the allocator has
\* memory for the frame and for the parsed payload.
C6_RoundTrip ==
    codec.pc = "parsed_built" /\ codec.avail =>
        /\ codec.out.ret
        /\ ~codec.out.ub
        /\ codec.out.payload_len = Len(codec.payload)
        /\ SubSeq(codec.out.payload, 1, codec.out.payload_len)
             = codec.payload

\* A payload of 65536 bytes went through the 64-bit encoding and back.
C6_Witness ==
    /\ codec.pc = "parsed_built"
    /\ codec.avail
    /\ Len(codec.payload) = 65536
    /\ Len(codec.buf) = 65546
    /\ codec.out.ret

\* A step in which net_accept fails.
AcceptFailStep == pc[Acceptor] = "accept" /\ pc'[Acceptor] = "loop"

\* A step in which the handling of the connection fails: the read, a send
\* or the registration.
HandlingFailStep == pc[Acceptor] # "close" /\ pc'[Acceptor] = "close"

\* The step of the accept loop that follows a failed handling.
AbandonStep == pc[Acceptor] = "close" /\ pc'[Acceptor] # "close"

\* C11: while the stop flag is not set the accept loop never exits; a
\* failure of accept, of the read, of a send or of the registration leaves
\* the registry and the other sockets as they are, closes only the socket of
\* that connection, and the loop goes back to accepting.
C11_AcceptLoopSurvivesFailures ==
    /\ [](~stopped => pc[Acceptor] # "done")
    /\ [][/\ AcceptFailStep \/ HandlingFailStep =>
               /\ clients' = clients
               /\ client_count' = client_count
               /\ open' = open
          /\ AbandonStep =>
               /\ pc'[Acceptor] = "loop"
               /\ open' = open \ {cur.sock}
               /\ clients' = clients
               /\ client_count' = client_count
          /\ (pc[Acceptor] = "loop" /\ ~stopped /\ pc'[Acceptor] # "loop") =>
               pc'[Acceptor] = "accept"]_vars

\* The last connection failed in its read or in a send and was closed; the
\* clients registered before it are alive and the loop accepts again.
C11_Witness ==
    /\ pc[Acceptor] = "accept"
    /\ ~stopped
    /\ budget.other = 0
    /\ (nextSock - 1) \notin open
    /\ client_count >= 1
    /\ client_count = nextSock - ListenSock - 2
    /\ \A i \in Allocated : clients[i].connected /\ clients[i].socket \in open

\* A step in which on_client_disconnected is invoked.
DisconnectedCbStep == disconnectedCnt' # disconnectedCnt

\* C12: on_client_disconnected is never invoked while server->mutex is
\* held (so that a callback that calls add_client, remove_client or push
\* cannot wait for that mutex).
C12_DisconnectCallbackOutsideLock ==
    [][DisconnectedCbStep =>
         mutexHolder.owner = NoThread /\ mutexHolder'.owner = NoThread]_vars

\* A step in which thread t writes a slot and increments the count.
AddWriteStep(t) == pc[t] = "add_body" /\ pc'[t] = "add_unlock"

\* The threads that are in add_client with an id to return.
AddersWithId == {t \in Threads : pc[t] \in {"add_body", "add_unlock"}
                                   /\ res[t] >= 0}

\* C13: with add_client and remove_client called concurrently by several
\* threads, the count never exceeds the capacity and never decreases, every
\* successful add_client writes a slot that no earlier call has written (the
\* slot at the count, which is the number of earlier successes) and no two
\* calls hold the same id.
C13_ConcurrentRegistryCalls ==
    /\ [](client_count <= SC_WEBRTC_MAX_CLIENTS)
    /\ [](\A t1, t2 \in AddersWithId : t1 # t2 => res[t1] # res[t2])
    /\ [][/\ client_count' >= client_count
          /\ \A t \in Threads :
                AddWriteStep(t) =>
                   /\ res[t] = client_count
                   /\ res[t] = nAddOk
                   /\ res[t] \in Slots
                   /\ clients'[res[t]].socket = arg[t]
                   /\ \A i \in Slots \ {res[t]} : clients'[i] = clients[i]]_vars

\* Two threads are in add_client for the last slot, one has written it and
\* the other waits for the mutex, after a client has been removed.
C13_Witness ==
    /\ client_count = SC_WEBRTC_MAX_CLIENTS
    /\ \E t1, t2 \in RegistryThreads :
          /\ pc[t1] = "add_unlock"
          /\ res[t1] = SC_WEBRTC_MAX_CLIENTS - 1
          /\ pc[t2] = "add_lock"
    /\ \E i \in Slots : disconnectedCnt[i] = 1

\* C16: slots are never reused: a successful add_client takes the slot after
\* all the slots ever taken; once as many clients as the table has slots
\* have been registered every add_client returns -1 and changes nothing,
\* also when every client has been removed; remove_client leaves the count
\* as it is.
C16_SlotsNeverReused ==
    /\ [](nAddOk = SC_WEBRTC_MAX_CLIENTS =>
             client_count = SC_WEBRTC_MAX_CLIENTS)
    /\ [][\A t \in Threads :
            /\ AddWriteStep(t) =>
                  res[t] = nAddOk /\ nAddOk < SC_WEBRTC_MAX_CLIENTS
            /\ (AddBodyStep(t) /\ nAddOk = SC_WEBRTC_MAX_CLIENTS) =>
                  /\ res'[t] = -1
                  /\ clients' = clients
                  /\ client_count' = client_count
            /\ RemoveBodyStep(t) => client_count' = client_count]_vars

\* Ten clients were registered, all ten were removed, and an add_client
\* made after that has returned -1.
C16_Witness ==
    /\ nAddOk = SC_WEBRTC_MAX_CLIENTS
    /\ \A i \in Slots : ~clients[i].connected /\ disconnectedCnt[i] = 1
    /\ \E t \in ApiThreads : pc[t] = "add_unlock" /\ res[t] = -1

\* C14: in every state in which server->mutex is free, the transport of
\* each allocated client is open exactly if the client is alive.
C14_TransportOpenIffAlive ==
    mutexHolder.owner = NoThread =>
        \A i \in Allocated : (clients[i].socket \in open) <=> clients[i].connected

\* With the mutex free, one client is alive with its transport open and
\* another one has been removed and its transport is closed.
C14_Witness ==
    /\ mutexHolder.owner = NoThread
    /\ \E i, j \in Allocated :
          /\ clients[i].connected /\ clients[i].socket \in open
          /\ ~clients[j].connected /\ clients[j].socket \notin open
          /\ disconnectedCnt[j] = 1

\* The positions between a sc_mutex_lock and the matching sc_mutex_unlock:
\* the bodies of add_client and remove_client and the loops over the table
\* of push and stop.
LockedPcs == {"add_check", "add_body", "add_unlock", "rm_body", "rm_unlock",
              "stop_loop", "stop_unlock", "push_loop", "push_unlock"}

\* A step that writes the count or a field of a client.
RegistryWriteStep == clients' # clients \/ client_count' # client_count

\* C15: every write of the count or of a client's fields, and every loop
\* over the table (push, the close-all loop of stop), is made by a thread
\* that holds server->mutex, and at most one thread is in such a place at
\* a time.
C15_RegistryAccessUnderLock ==
    /\ [](\A t \in Threads : pc[t] \in LockedPcs => mutexHolder.owner = t)
    /\ [](Cardinality({t \in Threads : pc[t] \in LockedPcs}) <= 1)
    /\ [][RegistryWriteStep =>
            \E t \in Threads : /\ pc'[t] # pc[t]
                               /\ pc[t] \in LockedPcs
                               /\ mutexHolder.owner = t]_vars

\* A frame is pushed while stop and an upgrade are in progress: the pushing
\* thread is in its loop, stop and add_client wait for the mutex.
C15_Witness ==
    /\ \E t \in ApiThreads : pc[t] = "push_loop" /\ mutexHolder.owner = t
    /\ pc[Main] = "stop_lock"
    /\ pc[Acceptor] = "add_lock"
    /\ client_count >= 1

\* The exclusive or of two bytes, bit by bit.
ByteXor(a, b) ==
    LET bit(x, k) == (x \div (2 ^ k)) % 2
        sum(k) == IF bit(a, k) = bit(b, k) THEN 0 ELSE 2 ^ k
    IN  sum(0) + sum(1) + sum(2) + sum(3) + sum(4) + sum(5) + sum(6) + sum(7)

\* C17: parse_websocket_frame on a received frame that is complete returns
\* the declared number of payload bytes; with the mask bit set, byte i is
\* the wire byte at that place exclusive-ored with mask[i mod 4], the mask
\* being the four bytes before the payload; without the mask bit it is the
\* wire byte; for the 7-bit, the 16-bit and the 64-bit length encodings.
C17_ParseUnmasks ==
    codec.pc = "parsed_received" /\ ~BufferShort /\ codec.avail =>
        LET h == WireHeaderLen(codec.decl, codec.masked)
            n == U64Int(Declared(codec.decl))
        IN  /\ codec.out.ret
            /\ ~codec.out.ub
            /\ codec.out.payload_len = n
            /\ \A i \in 0 .. n - 1 :
                  codec.out.payload[i + 1] =
                     IF codec.masked
                     THEN ByteXor(codec.buf[h + i + 1],
                                  codec.buf[h - 4 + (i % 4) + 1])
                     ELSE codec.buf[h + i + 1]

\* A masked frame of five payload bytes in the 64-bit length encoding has
\* been parsed, and its first byte differs from the wire byte.
C17_Witness ==
    /\ codec.pc = "parsed_received"
    /\ codec.masked
    /\ codec.decl.len7 = 127
    /\ codec.out.ret
    /\ codec.out.payload_len = 5
    /\ codec.out.payload[1] # codec.buf[15]

\* C18: once stop has returned and the accept task has finished, no client
\* of the registry is alive, whatever the accept task was doing when stop
\* ran (stated for the runs in which no thread but the accept task has
\* called add_client).
C18_NoClientAliveAfterStopAndJoin ==
    (StopReturned /\ pc[Acceptor] = "done" /\ budget.adds = MaxApiAdds) =>
        \A i \in Allocated : ~clients[i].connected

\* the accept task has registered slot i and has not yet reached the end of
\* handle_websocket (webrtc_server.c:307-318)
UpgradePending(i) ==
    /\ pc[Acceptor] \in {"add_unlock", "ws_added", "ws_cb"}
    /\ res[Acceptor] = i

\* a call of the connected callback (webrtc_server.c:314-316)
ConnectedCbStep == connectedCnt' # connectedCnt

\* C19: where every client is registered by an upgrade, the connected
\* callback has been called exactly once for each registered client whose
\* upgrade has finished and never for another id; each call is made by the
\* accept task for a handshake whose response was sent and whose add_client
\* succeeded, with the id add_client returned, after the slot of that id was
\* written with the connection's socket, and without the registry lock.
C19_ConnectedCallbackOncePerUpgrade ==
    /\ [](\A i \in Slots :
             connectedCnt[i] =
                IF i \in Allocated /\ ~UpgradePending(i) THEN 1 ELSE 0)
    /\ [][ConnectedCbStep =>
             /\ pc[Acceptor] = "ws_cb"
             /\ cur.path = "ws"
             /\ res[Acceptor] \in Allocated
             /\ clients[res[Acceptor]].socket = cur.sock
             /\ connectedCnt' =
                   [connectedCnt EXCEPT ![res[Acceptor]] = @ + 1]
             /\ mutexHolder.owner # Acceptor]_vars

\* Ten upgrades have been registered and announced, one of them has been
\* removed since, and the eleventh handshake found the registry full.
C19_Witness ==
    /\ cur.path = "ws_full"
    /\ \A i \in Slots : connectedCnt[i] = 1
    /\ \E i \in Slots : disconnectedCnt[i] = 1

\* C20: the stop flag, once set, is never cleared, and of the connections
\* net_accept returns after the flag is set the accept task handles at most
\* one: after that one it finds the flag set at the top of its loop and
\* exits.
C20_StopFlagStaysAndEndsAccepting ==
    /\ [][stopped => stopped']_vars
    /\ [](acceptedAfterStop <= 1)
    /\ [](acceptedAfterStop = 1 /\ pc[Acceptor] \in {"loop", "accept"} =>
             pc[Acceptor] = "loop" /\ stopped)

\* The accept task has taken one connection after the flag was set, has
\* handled it and has left its loop.
C20_Witness ==
    /\ stopped
    /\ acceptedAfterStop = 1
    /\ pc[Acceptor] = "done"

====
